---- MODULE Spec2Model ----
(***************************************************************************)
(* KNX TP1 protocol decoder (libsigrokdecode), src/pd.py and src/lists.py. *)
(*                                                                         *)
(* The Decoder object is a record `dec' whose fields are the attributes of *)
(* the Python object.  One action per iteration of the decode() loop, one  *)
(* for each UART state (IDLE, DATA, PARITY, STOP); the DATA iteration that *)
(* samples the eighth data bit includes the call of handle_octet and of    *)
(* the TPDU/APDU dissectors.  The sampled line is an environment record    *)
(* `wire' holding the character that is currently being transmitted.       *)
(* bit_width = samplerate / 9600 is kept as an exact fraction.             *)
(***************************************************************************)
EXTENDS Integers, Sequences, FiniteSets, TLC

(***************************************************************************)
(* Integer helpers for Python's &, |, ^, ceil, floor, round and format.    *)
(***************************************************************************)
RECURSIVE BitAnd(_, _)
BitAnd(a, b) ==
    IF a = 0 \/ b = 0 THEN 0
    ELSE (a % 2) * (b % 2) + 2 * BitAnd(a \div 2, b \div 2)

RECURSIVE BitOr(_, _)
BitOr(a, b) ==
    IF a = 0 THEN b
    ELSE IF b = 0 THEN a
    ELSE (IF a % 2 = 1 \/ b % 2 = 1 THEN 1 ELSE 0) + 2 * BitOr(a \div 2, b \div 2)

RECURSIVE BitXor(_, _)
BitXor(a, b) ==
    IF a = 0 THEN b
    ELSE IF b = 0 THEN a
    ELSE ((a + b) % 2) + 2 * BitXor(a \div 2, b \div 2)

\* ceil(num / den), floor(num / den), round(num / den) for num >= 0, den > 0;
\* round is Python 3's round-half-to-even.
Ceil(num, den) == (num + den - 1) \div den

Floor(num, den) == num \div den

Round(num, den) ==
    LET q == num \div den
        r == num % den
    IN  IF 2 * r < den THEN q
        ELSE IF 2 * r > den THEN q + 1
        ELSE IF q % 2 = 0 THEN q ELSE q + 1

HexDigit == <<"0", "1", "2", "3", "4", "5", "6", "7",
              "8", "9", "A", "B", "C", "D", "E", "F">>

\* '{:02X}'.format(b)
RECURSIVE Hex(_)
Hex(b) == IF b < 16 THEN HexDigit[b + 1] ELSE Hex(b \div 16) \o HexDigit[(b % 16) + 1]

Hex02(b) == IF b < 16 THEN "0" \o Hex(b) ELSE Hex(b)

\* '{}'.format(n) and '{:d}'.format(n)
RECURSIVE Dec(_)
Dec(n) == IF n < 10 THEN HexDigit[n + 1] ELSE Dec(n \div 10) \o HexDigit[(n % 10) + 1]

(***************************************************************************)
(* lists.py: the opcode tables.  A label template is a sequence of parts;  *)
(* the parts "{seqno:d}", "{no}" and "{data}" are the placeholders.        *)
(***************************************************************************)
ack_frames ==
    (\hCC :> << <<"ACK">> >>) @@
    (\h0C :> << <<"NACK">> >>) @@
    (\hC0 :> << <<"BUSY">> >>) @@
    (\h00 :> << <<"NACK+BUSY">> >>)

priority ==
    (\h00 :> << <<"System Priority">>, <<"System">>, <<"Sys">> >>) @@
    (\h08 :> << <<"Urgent Priority">>, <<"Urgent">>, <<"Urg">> >>) @@
    (\h04 :> << <<"Normal Priority">>, <<"Normal">>, <<"Norm">> >>) @@
    (\h0C :> << <<"Low Priority">>, <<"Low">> >>)

t_ctrl ==
    (\h8000 :> << <<"T_Data_Broadcast/T_Data_Group">> >>) @@
    (\h8001 :> << <<"T_Data_Tag_Group">> >>) @@
    (\h0000 :> << <<"T_Data_Individual">> >>) @@
    (\h0040 :> << <<"T_Data_Connected SeqNo:", "{seqno:d}">> >>) @@
    (\h0080 :> << <<"T_Connect">> >>) @@
    (\h0081 :> << <<"T_Disconnect">> >>) @@
    (\h00C2 :> << <<"T_ACK SeqNo:", "{seqno:d}">> >>) @@
    (\h00C3 :> << <<"T_NAK SeqNo:", "{seqno:d}">> >>)

a_ctrl ==
    (\h0000 :> << <<"A_GroupValue_Read">> >>) @@
    (\h0040 :> << <<"A_GroupValue_Response">> >>) @@
    (\h0080 :> << <<"A_GroupValue_Write">> >>) @@
    (\h00C0 :> << <<"A_IndividualAddress_Write">> >>) @@
    (\h0100 :> << <<"A_IndividualAddress_Read">> >>) @@
    (\h0140 :> << <<"A_IndividualAddress_Response">> >>) @@
    (\h0180 :> << <<"A_ADC_Read">> >>) @@
    (\h01C0 :> << <<"A_ADC_Response">> >>) @@
    (\h01C8 :> << <<"A_SystemNetworkParameter_Read">> >>) @@
    (\h01C9 :> << <<"A_SystemNetworkParameter_Response">> >>) @@
    (\h01CA :> << <<"A_SystemNetworkParameter_Write">> >>) @@
    (\h0200 :> << <<"A_Memory_Read">> >>) @@
    (\h0240 :> << <<"A_Memory_Response">> >>) @@
    (\h0280 :> << <<"A_Memory_Write">> >>) @@
    (\h02C0 :> << <<"A_UserMemory_Read">> >>) @@
    (\h02C1 :> << <<"A_UserMemory_Response">> >>) @@
    (\h02C2 :> << <<"A_UserMemory_Write">> >>) @@
    (\h02C4 :> << <<"A_UserMemoryBit_Write">> >>) @@
    (\h02C5 :> << <<"A_UserManufacturerInfo_Read">> >>) @@
    (\h02C6 :> << <<"A_UserManufacturerInfo_Response">> >>) @@
    (\h02C7 :> << <<"A_FunctionPropertyCommand">> >>) @@
    (\h02C8 :> << <<"A_FunctionPropertyState_Read">> >>) @@
    (\h02C9 :> << <<"A_FunctionPropertyState_Response">> >>) @@
    (\h02CA :> << <<"A_UserMsg", "{no}", " Data:", "{data}">> >>) @@
    (\h02F8 :> << <<"A_ManufacturerUserMsg", "{no}", " Data:", "{data}">> >>) @@
    (\h0300 :> << <<"A_DeviceDescriptor_Read">> >>) @@
    (\h0340 :> << <<"A_DeviceDescriptor_Response">> >>) @@
    (\h0380 :> << <<"A_Restart">> >>) @@
    (\h03D5 :> << <<"A_PropertyValue_Read">> >>) @@
    (\h03D6 :> << <<"A_PropertyValue_Response">> >>) @@
    (\h03D7 :> << <<"A_PropertyValue_Write">> >>) @@
    (\h03D8 :> << <<"A_PropertyDescription_Read">> >>) @@
    (\h03D9 :> << <<"A_PropertyDescription_Response">> >>) @@
    (\h03DA :> << <<"A_NetworkParameter_Read">> >>) @@
    (\h03DB :> << <<"A_NetworkParameter_Response">> >>) @@
    (\h03DC :> << <<"A_IndividualAddressSerialNumber_Read">> >>) @@
    (\h03DD :> << <<"A_IndividualAddressSerialNumber_Response">> >>) @@
    (\h03DE :> << <<"A_IndividualAddressSerialNumber_Write">> >>)

\* The keyword arguments of str.format; a call that passes none uses NoKw.
NoKw == [seqno |-> 0, no |-> 0, data |-> ""]

\* str.format(s, **kwargs) on one template
RECURSIVE str_format(_, _)
str_format(s, kw) ==
    IF s = <<>> THEN ""
    ELSE (CASE Head(s) = "{seqno:d}" -> Dec(kw.seqno)
            [] Head(s) = "{no}"      -> Dec(kw.no)
            [] Head(s) = "{data}"    -> kw.data
            [] OTHER                 -> Head(s))
         \o str_format(Tail(s), kw)

get_desc(desc, key, kw) ==
    LET desc_list == IF key \in DOMAIN desc THEN desc[key]
                     ELSE << <<"Invalid">>, <<"Inv">> >>
    IN  [i \in 1..Len(desc_list) |-> str_format(desc_list[i], kw)]

tp1_address_to_str(addr) ==
    Dec(addr \div 4096) \o "/" \o Dec((addr \div 256) % 16) \o "/" \o Dec(addr % 256)

(***************************************************************************)
(* Decoder class attributes.                                               *)
(***************************************************************************)
annotations == <<"start", "data", "parity-ok", "parity-err", "stop-ok",
                 "stop-err", "raw", "link", "transport", "application">>

\* annotation_rows: the row of each annotation id
annotation_rows ==
    [id \in 0..9 |-> IF id <= 5 THEN "bits" ELSE IF id = 6 THEN "raw-data" ELSE "layers"]

get_annotation_id(name) == (CHOOSE i \in 1..Len(annotations) : annotations[i] = name) - 1

\* put(): the record handed to the host; a symbolic tag becomes its id.
put(ss, se, output_id, data) ==
    IF output_id = "out_ann"
    THEN [ss |-> ss, se |-> se, output_id |-> output_id,
          data |-> <<get_annotation_id(data[1]), data[2]>>]
    ELSE [ss |-> ss, se |-> se, output_id |-> output_id, data |-> data]

BaudRate == 9600

\* value of an attribute holding Python's None (sa, da) and of bit_ss = -1
None == -1

(***************************************************************************)
(* Decoder methods.  `self' is the Decoder record.  Attributes that the    *)
(* code creates only on first assignment are listed in self.unset until    *)
(* that assignment (their fields then hold a typed placeholder).           *)
(***************************************************************************)
UnsetAttrs == {"fcs", "sa", "da", "at", "tpdu", "frame_start", "sample_point",
               "bitnum", "parity", "byte", "bit_ss"}

\* __init__/reset(), then metadata(SRD_CONF_SAMPLERATE, samplerate) and the
\* host's option polarity; samplenum is the host's sample counter.
Decoder(samplerate, polarity) ==
    [samplerate |-> samplerate, polarity |-> polarity, samplenum |-> 0,
     state |-> "IDLE", octet_num |-> 0, last_ss |-> 0, last_octet |-> 0,
     length |-> 0, last_frame_se |-> 0,
     fcs |-> 0, sa |-> 0, da |-> 0, at |-> FALSE, tpdu |-> <<>>,
     frame_start |-> 0, sample_point |-> 0, bitnum |-> 0, parity |-> 0,
     byte |-> 0, bit_ss |-> 0, unset |-> UnsetAttrs]

\* variant of reset() that leaves octet_num alone
reset_keep_octet_num(self) ==
    [self EXCEPT !.samplerate = None, !.state = "IDLE", !.last_ss = 0,
                 !.last_octet = 0, !.length = 0, !.last_frame_se = 0]

\* reset(): the seven attributes it assigns; all others keep their values
reset(self) ==
    [self EXCEPT !.samplerate = None, !.state = "IDLE", !.octet_num = 0,
                 !.last_ss = 0, !.last_octet = 0, !.length = 0,
                 !.last_frame_se = 0]

\* metadata(srd.SRD_CONF_SAMPLERATE, value)
metadata(self, value) == [self EXCEPT !.samplerate = value]

\* the first two lines of decode(): with no samplerate the raise statement
\* names SampleRateError, which is not defined anywhere (the class of the
\* module is SamplerateError), so evaluating it raises NameError
decode_start(self) ==
    IF self.samplerate = None \/ self.samplerate = 0 THEN "NameError" ELSE "decode"

\* bit_width = samplerate / 9600; the roundings of its multiples the code takes
floor_bit_width_12(self) == Floor(self.samplerate, BaudRate * 12)

ceil_bit_width_12(self) == Ceil(self.samplerate, BaudRate * 12)

round_bit_width_12(self) == Round(self.samplerate, BaudRate * 12)

floor_bit_width_2(self) == Floor(self.samplerate * 2, BaudRate)

get_sample_range(self, numbits) ==
    <<self.samplenum - Ceil(self.samplerate * (12 * numbits - 1), BaudRate * 12),
      self.samplenum + floor_bit_width_12(self)>>

putb(self, data) ==
    LET r == get_sample_range(self, 1) IN put(r[1], r[2], "out_ann", data)

putd(self, data) ==
    LET r == get_sample_range(self, 8) IN put(r[1], r[2], "out_ann", data)

putbinary(self, data) ==
    LET r == get_sample_range(self, 8) IN put(r[1], r[2], "out_binary", data)

\* ' '.join(map(lambda d: str.format('{:02X}', d[2]), apdu[2:]))
RECURSIVE join_hex(_)
join_hex(octets) ==
    IF octets = <<>> THEN ""
    ELSE IF Len(octets) = 1 THEN Hex02(octets[1][3])
    ELSE Hex02(octets[1][3]) \o " " \o join_hex(Tail(octets))

\* ctrl = (ctrl0 << 8) & 0x300 | ctrl1
apci(ctrl0, ctrl1) == BitOr(BitAnd(ctrl0 * 256, \h300), ctrl1)

\* variant whose first sub-range ends one value early
apdu_desc_narrow(ctrl, data) ==
    IF ctrl >= \h2CA /\ ctrl <= \h2F6
    THEN LET no == ctrl - \h2CA
         IN  get_desc(a_ctrl, ctrl - no, [seqno |-> 0, no |-> no, data |-> data])
    ELSE IF ctrl >= \h2F8 /\ ctrl <= \h2FE
    THEN LET no == ctrl - \h2F8
         IN  get_desc(a_ctrl, ctrl - no, [seqno |-> 0, no |-> no, data |-> data])
    ELSE get_desc(a_ctrl, ctrl, NoKw)

\* the key looked up in a_ctrl and the keyword arguments of the label
apdu_desc(ctrl, data) ==
    IF ctrl >= \h2CA /\ ctrl <= \h2F7
    THEN LET no == ctrl - \h2CA
         IN  get_desc(a_ctrl, ctrl - no, [seqno |-> 0, no |-> no, data |-> data])
    ELSE IF ctrl >= \h2F8 /\ ctrl <= \h2FE
    THEN LET no == ctrl - \h2F8
         IN  get_desc(a_ctrl, ctrl - no, [seqno |-> 0, no |-> no, data |-> data])
    ELSE get_desc(a_ctrl, ctrl, NoKw)

\* variant that always ends at the second octet
apdu_se_second(apdu, ctrl) == apdu[2][2]

\* the end sample of the application annotation
apdu_se(apdu, ctrl) ==
    IF ctrl >= \h2CA /\ ctrl <= \h2FE THEN apdu[Len(apdu)][2] ELSE apdu[2][2]

\* handle_apdu: the annotations it puts
handle_apdu(self, apdu) ==
    IF Len(apdu) >= 2
    THEN LET se0  == apdu[1][2]
             ss   == se0 - floor_bit_width_2(self)
             ctrl == apci(apdu[1][3], apdu[2][3])
             data == join_hex(SubSeq(apdu, 3, Len(apdu)))
         IN  <<put(ss, apdu_se(apdu, ctrl), "out_ann",
                   <<"application", apdu_desc(ctrl, data)>>)>>
    ELSE <<>>

\* variant that keeps the two low bits of a data-carrying TPCI
tpci_key_unmasked(ctrl0, at) ==
    LET c1 == IF at THEN BitOr(ctrl0, \h8000) ELSE ctrl0
    IN  IF BitAnd(c1, \h40) # 0 THEN BitAnd(c1, \h80C3) ELSE c1

\* the key looked up in t_ctrl for the first TPDU octet
tpci_key(ctrl0, at) ==
    LET c1 == IF at THEN BitOr(ctrl0, \h8000) ELSE ctrl0
        c2 == IF BitAnd(c1, \h80) = 0 THEN BitAnd(c1, \h80FC) ELSE c1
    IN  IF BitAnd(c2, \h40) # 0 THEN BitAnd(c2, \h80C3) ELSE c2

tpci_seqno(ctrl0) ==
    LET c2 == IF BitAnd(ctrl0, \h80) = 0 THEN BitAnd(ctrl0, \h80FC) ELSE ctrl0
    IN  IF BitAnd(c2, \h40) # 0 THEN BitAnd(c2 \div 4, \hF) ELSE 0

\* handle_tpdu: the annotations it puts, in the order of the put calls
handle_tpdu(self, tpdu) ==
    IF Len(tpdu) >= 1
    THEN LET ss     == tpdu[1][1]
             ctrl0  == tpdu[1][3]
             isdata == BitAnd(ctrl0, \h80) = 0
             se     == IF isdata THEN tpdu[1][2] - floor_bit_width_2(self)
                       ELSE tpdu[1][2]
             desc   == get_desc(t_ctrl, tpci_key(ctrl0, self.at),
                                [seqno |-> tpci_seqno(ctrl0), no |-> 0, data |-> ""])
         IN  (IF isdata THEN handle_apdu(self, tpdu) ELSE <<>>)
             \o <<put(ss, se, "out_ann", <<"transport", desc>>)>>
    ELSE <<>>

\* variant of the idle timeout with a threshold of 11 bit times
idle_timeout_11(self, ss) ==
    (ss - self.last_frame_se) * BaudRate > self.samplerate * 11

\* ss > self.last_frame_se + self.bit_width * 10
idle_timeout(self, ss) ==
    (ss - self.last_frame_se) * BaudRate > self.samplerate * 10

\* octet & 0x33 == 0
is_ack(octet) == BitAnd(octet, \h33) = 0

\* variant without the early return after an acknowledge octet
frame_ends_never(octet) == FALSE

\* if octet & 0x33 == 0: return
frame_ends(octet) == BitAnd(octet, \h33) = 0

\* the label of the first octet of a frame
frame_desc(octet) ==
    IF is_ack(octet) THEN get_desc(ack_frames, octet, NoKw)
    ELSE IF octet = \hF0 THEN <<"Poll Data Frame">>
    ELSE IF BitAnd(octet, \h80) # 0
    THEN LET repeated == IF BitAnd(octet, \h20) # 0 THEN "" ELSE "Repeated "
             prio     == get_desc(priority, BitAnd(octet, \h0C), NoKw)[1]
         IN  <<repeated \o "Data Standard Frame, " \o prio>>
    ELSE <<"Data Extended Frame">>

\* variants of the FCS comparison: against the plain XOR without the 0xFF
\* seed, and a comparison that always succeeds
fcs_ok_unseeded(self, octet) == self.fcs = BitXor(octet, \hFF)

fcs_ok_always(self, octet) == TRUE

\* self.fcs == octet
fcs_ok(self, octet) == self.fcs = octet

\* variant that stops collecting one octet early
in_tpdu_short(s) == s.octet_num > 5 /\ s.octet_num < s.length + 6

\* elif self.octet_num > 5 and self.octet_num <= self.length + 6
in_tpdu(s) == s.octet_num > 5 /\ s.octet_num <= s.length + 6

\* variant that starts over after the frame check octet
next_octet_num_wrap(s) == IF s.octet_num = 7 + s.length THEN 0 ELSE s.octet_num + 1

\* self.octet_num += 1
next_octet_num(s) == s.octet_num + 1

\* the per-position part of handle_octet: the new Decoder, the annotations
\* put, and whether the method returns before the common tail
handle_position(s, octet, ss, se) ==
    LET n == s.octet_num
    IN  IF n = 0
        THEN [self |-> s,
              out  |-> <<put(ss, se, "out_ann", <<"link", frame_desc(octet)>>)>>,
              ret  |-> frame_ends(octet)]
        ELSE IF n = 2
        THEN LET sa == s.last_octet * 256 + octet
             IN  [self |-> [s EXCEPT !.sa = sa],
                  out  |-> <<put(s.last_ss, se, "out_ann",
                       <<"link", <<"Source Address:" \o tp1_address_to_str(sa)>> >>)>>,
                  ret  |-> FALSE]
        ELSE IF n = 4
        THEN LET da == s.last_octet * 256 + octet
             IN  [self |-> [s EXCEPT !.da = da],
                  out  |-> <<put(s.last_ss, se, "out_ann",
                       <<"link", <<"Destination Address:" \o tp1_address_to_str(da)>> >>)>>,
                  ret  |-> FALSE]
        ELSE IF n = 5
        THEN LET length == BitAnd(octet, 15)
                 at     == BitAnd(octet, \h80) # 0
                 hc     == BitAnd(octet \div 16, 7)
                 desc   == <<(IF at THEN "Group Address" ELSE "Individal Address")
                             \o ", Hop count:" \o Dec(hc) \o ", Length:" \o Dec(length)>>
             IN  [self |-> [s EXCEPT !.length = length, !.at = at],
                  out  |-> <<put(ss, se, "out_ann", <<"link", desc>>)>>,
                  ret  |-> FALSE]
        ELSE IF in_tpdu(s)
        THEN [self |-> [s EXCEPT !.tpdu = Append(@, <<ss, se, octet>>)],
              out  |-> <<>>, ret |-> FALSE]
        ELSE IF n = 7 + s.length
        THEN IF fcs_ok(s, octet)
             THEN [self |-> s,
                   out  |-> handle_tpdu(s, s.tpdu)
                            \o <<put(ss, se, "out_ann", <<"link", <<"FCS OK">> >>)>>,
                   ret  |-> FALSE]
             ELSE [self |-> s,
                   out  |-> <<put(ss, se, "out_ann",
                        <<"link", <<"FCS error (expected " \o Hex02(s.fcs) \o ")",
                                    "FCS error">> >>)>>,
                   ret  |-> FALSE]
        ELSE [self |-> s, out |-> <<>>, ret |-> FALSE]

handle_octet(self, octet) ==
    LET r  == get_sample_range(self, 8)
        ss == r[1]
        se == r[2]
        s1 == [self EXCEPT !.octet_num = IF idle_timeout(self, ss) THEN 0 ELSE @,
                           !.last_frame_se = se]
        s2 == IF s1.octet_num = 0
              THEN [s1 EXCEPT !.fcs = \hFF, !.sa = None, !.da = None,
                              !.length = 0, !.at = FALSE, !.tpdu = <<>>,
                              !.unset = @ \ {"fcs", "sa", "da", "at", "tpdu"}]
              ELSE s1
        p  == handle_position(s2, octet, ss, se)
    IN  IF p.ret
        THEN [self |-> p.self, out |-> p.out]
        ELSE [self |-> [p.self EXCEPT !.fcs = BitXor(@, octet), !.last_ss = ss,
                                      !.last_octet = octet,
                                      !.octet_num = next_octet_num(p.self)],
              out  |-> p.out]

(***************************************************************************)
(* The sampled line.  wire is the character being transmitted: the sample  *)
(* `start' of its start edge, its data octet, and the levels of its parity *)
(* and stop cells.  A cell lasts one bit time, 1/9600 s, that is           *)
(* samplerate/9600 samples.  Levels are logical (1 = idle); an inverted    *)
(* stream carries their complement.  `flips' are the samples of the bit    *)
(* period being sampled at which noise complements the level, `noisy'      *)
(* tells that noise has hit the character.                                 *)
(***************************************************************************)
NoChar == [kind |-> "none", start |-> 0, octet |-> 0, par |-> 1, stop |-> 1,
           flips |-> {}, noisy |-> FALSE]

\* a character with data octet o starting at sample st
Char(st, o) == [kind |-> "char", start |-> st, octet |-> o, par |-> 1, stop |-> 1,
                flips |-> {}, noisy |-> FALSE]

\* a low pulse at sample st on the idle line
Glitch(st) == [kind |-> "glitch", start |-> st, octet |-> 0, par |-> 1, stop |-> 1,
               flips |-> {}, noisy |-> FALSE]

\* the bit cell of the character that sample t lies in
cell_of(w, samplerate, t) == ((t - w.start) * BaudRate) \div samplerate

cell_level(w, samplerate, t) ==
    IF w.kind = "none" \/ t < w.start THEN 1
    ELSE IF w.kind = "glitch" THEN (IF t = w.start THEN 0 ELSE 1)
    ELSE LET c == cell_of(w, samplerate, t)
         IN  IF c = 0 THEN 0
             ELSE IF c <= 8 THEN (w.octet \div (2 ^ (c - 1))) % 2
             ELSE IF c = 9 THEN w.par
             ELSE IF c = 10 THEN w.stop
             ELSE 1

line_level(w, samplerate, t) ==
    IF t \in w.flips THEN 1 - cell_level(w, samplerate, t) ELSE cell_level(w, samplerate, t)

\* what wait() returns for the data channel at sample t
pin_level(w, inverted, samplerate, t) ==
    IF inverted THEN 1 - line_level(w, samplerate, t) ELSE line_level(w, samplerate, t)

\* the edge the start of a character makes on the stream
start_edge(inverted) == IF inverted THEN "r" ELSE "f"

(***************************************************************************)
(* Bit sampler and the four iterations of the decode() loop.               *)
(***************************************************************************)
\* get_next_sample_point: the value the call returns when it finds
\* self.sample_point = sample_point, that is
\* ceil(frame_start + round(bit_width / 12) + sample_point * bit_width / 6);
\* the call also increments self.sample_point
get_next_sample_point(self, sample_point) ==
    self.frame_start + round_bit_width_12(self)
    + Ceil(sample_point * self.samplerate, BaudRate * 6)

\* the six samples sample_bit will wait for: want_num of its six iterations
sub_sample_points(self) ==
    [i \in 1..6 |-> get_next_sample_point(self, self.sample_point + (i - 1))]

\* variant that ignores the polarity option
apply_polarity_none(self, rxtx) == rxtx

\* if self.options['polarity'] == 'inverted': rxtx ^= 1
apply_polarity(self, rxtx) == IF self.polarity = "inverted" THEN 1 - rxtx ELSE rxtx

\* variant that wants all six sub-samples high
vote_all_six(bits) == IF bits = \h3F THEN 1 ELSE 0

\* return 1 if bits & 0x3e == 0x3e else 0
vote(bits) == IF BitAnd(bits, \h3E) = \h3E THEN 1 ELSE 0

\* sample_bit: the six iterations of its loop wait for the six samples,
\* bit_ss is set in the first, and bits collects the levels, first sample in
\* the highest bit
sample_bit(self, w, inverted) ==
    LET pts  == sub_sample_points(self)
        rxtx == [i \in 1..6 |->
                   apply_polarity(self, pin_level(w, inverted, self.samplerate, pts[i]))]
        bits == 32 * rxtx[1] + 16 * rxtx[2] + 8 * rxtx[3] + 4 * rxtx[4]
                + 2 * rxtx[5] + rxtx[6]
    IN  [self |-> [self EXCEPT !.sample_point = @ + 6, !.samplenum = pts[6],
                               !.bit_ss = pts[1] - ceil_bit_width_12(self),
                               !.unset = @ \ {"bit_ss"}],
         rxtx |-> vote(bits)]

\* the edge decode() waits for in IDLE
wait_edge(self) == IF self.polarity = "normal" THEN "f" ELSE "r"

\* variant that shifts MSB-first
shift_in_msb(byte, rxtx) == (byte * 2 + rxtx) % 256

\* self.byte = (rxtx << 8 | self.byte) >> 1
shift_in(byte, rxtx) == BitOr(rxtx * 256, byte) \div 2

\* variant that ORs instead of XORs
parity_or(parity, rxtx) == BitOr(parity, rxtx)

\* self.parity = self.parity ^ rxtx
parity_xor(parity, rxtx) == BitXor(parity, rxtx)

\* Each iteration yields the new Decoder, the records put, and the octets
\* handed to handle_octet.
decode_IDLE(self, w, inverted) ==
    LET s1 == [self EXCEPT !.samplenum = w.start, !.frame_start = w.start,
                           !.sample_point = 0,
                           !.unset = @ \ {"frame_start", "sample_point"}]
        b  == sample_bit(s1, w, inverted)
    IN  IF b.rxtx = 0
        THEN [self |-> [b.self EXCEPT !.bitnum = 0, !.parity = 0, !.byte = 0,
                                      !.state = "DATA",
                                      !.unset = @ \ {"bitnum", "parity", "byte"}],
              out  |-> <<putb(b.self, <<"start", <<"Start bit", "Start", "S">> >>)>>,
              octets |-> <<>>]
        ELSE [self |-> b.self, out |-> <<>>, octets |-> <<>>]

decode_DATA(self, w, inverted) ==
    LET b  == sample_bit(self, w, inverted)
        s1 == [b.self EXCEPT !.byte = shift_in(@, b.rxtx), !.bitnum = @ + 1,
                             !.parity = parity_xor(@, b.rxtx)]
        o1 == <<putb(b.self, <<"data", IF b.rxtx = 1 THEN <<"1">> ELSE <<"0">> >>)>>
    IN  IF s1.bitnum = 8
        THEN LET h == handle_octet(s1, s1.byte)
             IN  [self |-> [h.self EXCEPT !.state = "PARITY"],
                  out  |-> o1 \o <<putd(s1, <<"raw", <<Hex02(s1.byte)>> >>),
                                   putbinary(s1, <<0, <<s1.byte>> >>)>> \o h.out,
                  octets |-> <<s1.byte>>]
        ELSE [self |-> s1, out |-> o1, octets |-> <<>>]

decode_PARITY(self, w, inverted) ==
    LET b  == sample_bit(self, w, inverted)
        s1 == [b.self EXCEPT !.parity = parity_xor(@, b.rxtx), !.state = "STOP"]
    IN  [self |-> s1,
         out  |-> IF s1.parity = 0
                  THEN <<putb(b.self, <<"parity-ok", <<"Parity bit", "Parity", "P">> >>)>>
                  ELSE <<putb(b.self, <<"parity-err",
                                        <<"Parity error", "Parity err", "PE">> >>)>>,
         octets |-> <<>>]

\* variant of the STOP iteration that samples two stop-bit periods
decode_STOP_twice(self, w, inverted) ==
    LET b1 == sample_bit(self, w, inverted)
        b  == sample_bit(b1.self, w, inverted)
    IN  [self |-> [b.self EXCEPT !.state = "IDLE"],
         out  |-> IF b1.rxtx = 1 /\ b.rxtx = 1
                  THEN <<putb(b.self, <<"stop-ok", <<"Stop bit", "Stop", "T">> >>)>>
                  ELSE <<putb(b.self, <<"stop-err",
                                        <<"Stop bit error", "Stop err", "TE">> >>)>>,
         octets |-> <<>>]

decode_STOP(self, w, inverted) ==
    LET b == sample_bit(self, w, inverted)
    IN  [self |-> [b.self EXCEPT !.state = "IDLE"],
         out  |-> IF b.rxtx = 1
                  THEN <<putb(b.self, <<"stop-ok", <<"Stop bit", "Stop", "T">> >>)>>
                  ELSE <<putb(b.self, <<"stop-err",
                                        <<"Stop bit error", "Stop err", "TE">> >>)>>,
         octets |-> <<>>]

(***************************************************************************)
(* Bounds and the inputs the transmitter draws from.                       *)
(***************************************************************************)
\* characters and glitches on the line in one run
MaxChars == 11

\* transmissions in one run: an acknowledge character or a data frame
MaxFrames == 2

\* character periods in one run that are longer than the nominal 13 bit times
MaxGaps == 1

\* largest payload length L a transmitted frame announces (tpdu has L+1 octets)
MaxLen == 2

\* octets a transmitter sends after the FCS octet without an idle gap
MaxTrail == 1

SampleRates == {115200, 1000000}

\* first octets: a standard data frame, the four acknowledge frames and an
\* invalid acknowledge
CtrlOctets == {\hBC, \hCC, \h0C, \hC0, \h00, \h44}

\* octets 1..4 (source and destination address)
AddrOctets == <<\h11, \h01, \h09, \h01>>

\* first TPDU octet (after a group and after an individual destination), and
\* the second one sent after it
Tpdu0(at) == IF at = 1 THEN {\h00} ELSE {\h54, \h80}

Tpdu1(t0) == IF t0 = \h00 THEN \h81 ELSE IF t0 = \h54 THEN \h41 ELSE \h00

\* 0xFF XOR-ed with all octets of f
RECURSIVE xor_fold(_)
xor_fold(f) == IF f = <<>> THEN \hFF ELSE BitXor(xor_fold(SubSeq(f, 1, Len(f) - 1)), f[Len(f)])

\* the octet sent at position 7+L: the matching frame check octet, and one
\* with two bits flipped (0x1F after BC 11 01 09 01 E1 00 81)
FcsOctets(f) == {xor_fold(f), BitXor(xor_fold(f), \h24)}

\* the octets the transmitter may send after the octets f of its frame
TxOctets(f) ==
    LET pos == Len(f)
        L   == IF pos > 5 THEN f[6] % 16 ELSE 0
    IN  IF pos = 0 THEN CtrlOctets
        ELSE IF pos <= 4 THEN {AddrOctets[pos]}
        ELSE IF pos = 5 THEN {at * 128 + 6 * 16 + (len % 16) : at \in {0, 1}, len \in 0..MaxLen}
        ELSE IF pos = 6 THEN Tpdu0(f[6] \div 128)
        ELSE IF pos = 7 /\ L >= 1 THEN {Tpdu1(f[7])}
        ELSE IF pos <= 6 + L THEN {\h00}
        ELSE IF pos = 7 + L THEN FcsOctets(f)
        ELSE {\h00}

\* the transmitter may send one more octet of its frame
TxMore(f) ==
    IF Len(f) <= 5 THEN TRUE ELSE Len(f) <= 7 + (f[6] % 16) + MaxTrail

\* sample of the first start edge
FirstEdge(samplerate) == Ceil(2 * samplerate, BaudRate)

\* start-to-start distance of characters inside a frame: 13 bit times
NominalPeriod(samplerate) == Ceil(13 * samplerate, BaudRate)

\* longer distances: 18 bit times (an idle gap of 10 bit times between the
\* data bits of the two characters) and one sample more
GapPeriods(samplerate) ==
    {Floor(18 * samplerate, BaudRate), Floor(18 * samplerate, BaudRate) + 1}

(***************************************************************************)
(* State.                                                                  *)
(*   dec     the Decoder                                                   *)
(*   out     the records the last loop iteration put, in order             *)
(*   octets  the octets handed to handle_octet since the last start edge   *)
(*   wire    the character on the line                                     *)
(*   tx      the transmitter: octets of its frame so far, characters and   *)
(*           gaps used, and the host's calls of reset()                    *)
(*   frame   the octets the link framer took at positions 0.. of the       *)
(*           current frame                                                 *)
(*   row_ss  per annotation row, the ss of the annotation put last         *)
(*   arrival for the octet handed to handle_octet since the last start     *)
(*           edge: `gap', its start sample minus the end sample of the     *)
(*           octet before it, and `from', octet_num when it arrived        *)
(*   dec2, out2  a second Decoder, polarity=inverted, fed the complement   *)
(*           of the stream                                                 *)
(*   pc      where the decoder is: "constructed" after __init__() or       *)
(*           reset(), "decode" in the loop of decode(), "NameError" when   *)
(*           decode() ended with that exception,                           *)
(*           "handle_tpdu" at the call of the TPDU dissector, "return"     *)
(*           after it                                                      *)
(***************************************************************************)
VARIABLES dec, out, octets, wire, tx, frame, row_ss, arrival, dec2, out2, pc

vars == <<dec, out, octets, wire, tx, frame, row_ss, arrival, dec2, out2, pc>>

Rows == {"bits", "raw-data", "layers"}

\* the annotations among the records rs
Anns(rs) == SelectSeq(rs, LAMBDA r : r.output_id = "out_ann")

\* the annotations of rs with tag name
Tagged(rs, name) == SelectSeq(rs, LAMBDA r : r.output_id = "out_ann" /\ r.data[1] = get_annotation_id(name))

InRow(rs, row) == SelectSeq(Anns(rs), LAMBDA r : annotation_rows[r.data[1]] = row)

NoArrival == [gap |-> 0, from |-> 0]

Init ==
    /\ \E sr \in SampleRates :
         /\ dec = Decoder(sr, "normal")
         /\ dec2 = Decoder(sr, "inverted")
    /\ out = <<>>
    /\ out2 = <<>>
    /\ octets = <<>>
    /\ wire = NoChar
    /\ tx = [frame |-> <<>>, n |-> 0, gaps |-> 0, frames |-> 0, resets |-> 0]
    /\ frame = <<>>
    /\ row_ss = [r \in Rows |-> -1]
    /\ arrival = NoArrival
    /\ pc = "decode"

\* bookkeeping common to all iterations: r is the iteration's result
Emit(r) ==
    /\ pc = "decode"
    /\ pc' = pc
    /\ dec' = r.self
    /\ out' = r.out
    /\ row_ss' = [row \in Rows |->
                    LET rs == InRow(r.out, row)
                    IN  IF rs = <<>> THEN row_ss[row] ELSE rs[Len(rs)].ss]

\* the edges the line may show next: start sample and whether the distance
\* to the previous start is a gap
NextStarts ==
    IF wire.kind = "none" THEN {<<FirstEdge(dec.samplerate), FALSE>>}
    ELSE {<<wire.start + NominalPeriod(dec.samplerate), FALSE>>}
         \cup (IF tx.gaps < MaxGaps
               THEN {<<wire.start + p, TRUE>> : p \in GapPeriods(dec.samplerate)}
               ELSE {})

\* IDLE: the next start edge arrives; the line carries a character with data
\* octet o, or a glitch shorter than the first sampling point.
IdleOn(w, inverted, gap) ==
    /\ wire' = w
    /\ tx' = IF w.kind = "glitch"
             THEN [tx EXCEPT !.frame = <<>>, !.n = @ + 1, !.gaps = @ + 1]
             ELSE [frame  |-> IF is_ack(w.octet) /\ (gap \/ tx.frame = <<>>) THEN <<>>
                              ELSE IF gap THEN <<w.octet>>
                              ELSE Append(tx.frame, w.octet),
                   n      |-> tx.n + 1,
                   gaps   |-> IF gap THEN tx.gaps + 1 ELSE tx.gaps,
                   frames |-> IF gap \/ tx.frame = <<>> THEN tx.frames + 1
                              ELSE tx.frames,
                   resets |-> tx.resets]
    /\ \E r \in {decode_IDLE(dec, w, inverted)} : Emit(r)
    /\ octets' = <<>>
    /\ arrival' = NoArrival
    /\ frame' = frame

Idle ==
    /\ dec.state = "IDLE"
    /\ wait_edge(dec) = start_edge(FALSE)
    /\ tx.n < MaxChars
    /\ \E st \in NextStarts :
         /\ st[1] > dec.samplenum
         /\ \/ \E o \in TxOctets(IF st[2] THEN <<>> ELSE tx.frame) :
                 /\ IF st[2] \/ tx.frame = <<>> THEN tx.frames < MaxFrames
                    ELSE TxMore(tx.frame)
                 /\ IdleOn(Char(st[1], o), FALSE, st[2])
            \/ /\ wire.kind = "char"
               /\ ~st[2]
               /\ tx.gaps < MaxGaps
               /\ IdleOn(Glitch(st[1]), FALSE, st[2])

\* the octets of the current frame after the iteration with result r
FrameAfter(r) ==
    IF r.octets = <<>> THEN frame
    ELSE IF r.self.octet_num = 0 THEN <<>>
    ELSE IF r.self.octet_num = 1 THEN r.octets
    ELSE frame \o r.octets

\* DATA: w is the line during the bit period
DataOn(w, inverted) ==
    \E r \in {decode_DATA(dec, w, inverted)} :
        /\ Emit(r)
        /\ octets' = octets \o r.octets
        /\ frame' = FrameAfter(r)
        /\ arrival' = IF r.octets = <<>> THEN arrival
                      ELSE [gap  |-> get_sample_range(r.self, 8)[1] - dec.last_frame_se,
                            from |-> dec.octet_num]
        /\ wire' = w
        /\ UNCHANGED tx

Data ==
    /\ dec.state = "DATA"
    /\ DataOn(wire, FALSE)

\* PARITY: the parity cell of the line is sampled; its level is any
ParityOn(w, inverted) ==
    /\ wire' = w
    /\ \E r \in {decode_PARITY(dec, w, inverted)} : Emit(r)
    /\ UNCHANGED <<octets, frame, tx, arrival>>

Parity ==
    /\ dec.state = "PARITY"
    /\ \E p \in {0, 1} : ParityOn([wire EXCEPT !.par = p], FALSE)

\* STOP: the stop cell of the line is sampled; its level is any
StopOn(w, inverted) ==
    /\ wire' = w
    /\ \E r \in {decode_STOP(dec, w, inverted)} : Emit(r)
    /\ UNCHANGED <<octets, frame, tx, arrival>>

Stop ==
    /\ dec.state = "STOP"
    /\ \E l \in {0, 1} : StopOn([wire EXCEPT !.stop = l], FALSE)

Single == UNCHANGED <<dec2, out2>>

Next ==
    \/ Idle /\ Single
    \/ Data /\ Single
    \/ Parity /\ Single
    \/ Stop /\ Single

Spec == Init /\ [][Next]_vars

(***************************************************************************)
(* Two decoders: dec (polarity=normal) on the stream and dec2              *)
(* (polarity=inverted) on its level-wise complement.  Each iteration of    *)
(* dec2 is taken at the same start edge and on the same character as the   *)
(* iteration of dec.                                                       *)
(***************************************************************************)
Emit2(r) ==
    /\ dec2' = r.self
    /\ out2' = r.out

Idle2 ==
    /\ wait_edge(dec2) = start_edge(TRUE)
    /\ \E r \in {decode_IDLE(dec2, wire', TRUE)} : Emit2(r)

Data2 == \E r \in {decode_DATA(dec2, wire', TRUE)} : Emit2(r)

Parity2 == \E r \in {decode_PARITY(dec2, wire', TRUE)} : Emit2(r)

Stop2 == \E r \in {decode_STOP(dec2, wire', TRUE)} : Emit2(r)

NextPol ==
    \/ Idle /\ Idle2
    \/ Data /\ Data2
    \/ Parity /\ Parity2
    \/ Stop /\ Stop2

SpecPol == Init /\ [][NextPol]_vars

(***************************************************************************)
(* UART only: the transmitter sends one octet out of all 256, up to        *)
(* UartChars times at the nominal period, with any parity and stop level.  *)
(***************************************************************************)
UartChars == 2

AllOctets == 0..255

IdleUart ==
    /\ dec.state = "IDLE"
    /\ wait_edge(dec) = start_edge(FALSE)
    /\ tx.n < UartChars
    /\ \E st \in NextStarts, o \in AllOctets :
         /\ ~st[2]
         /\ wire.kind = "char" => o = wire.octet
         /\ IdleOn(Char(st[1], o), FALSE, FALSE)

NextUart ==
    \/ IdleUart /\ Single
    \/ Data /\ Single
    \/ Parity /\ Single
    \/ Stop /\ Single

SpecUart == Init /\ [][NextUart]_vars

(***************************************************************************)
(* Noise: in one bit period of a character the level at each of the six    *)
(* sub-samples is any; a low pulse on the idle line has any level at the   *)
(* six sub-samples after its edge.  The two decoders of SpecPol sample it. *)
(***************************************************************************)
\* characters and pulses on the line in one run
NoiseChars == 1

NoiseOctets == {\hA5}

\* a pattern tells for each of the six sub-samples whether noise hits it
NoisePatterns == 0..63

Hit(n, i) == (n \div (2 ^ (6 - i))) % 2 = 1

\* the samples pattern n hits in the bit period `self' samples next
Noise(self, n) == {sub_sample_points(self)[i] : i \in {j \in 1..6 : Hit(n, j)}}

\* the line w with pattern n in the bit period sampled next
Noisy(w, n) == [w EXCEPT !.flips = Noise(dec, n), !.noisy = @ \/ n # 0]

\* the patterns the bit period sampled next may have: noise hits one bit
\* period of a character
Patterns == IF wire.noisy THEN {0} ELSE NoisePatterns

IdleNoise ==
    /\ dec.state = "IDLE"
    /\ wait_edge(dec) = start_edge(FALSE)
    /\ tx.n < NoiseChars
    /\ \E st \in NextStarts :
         /\ ~st[2]
         /\ \/ \E o \in NoiseOctets : IdleOn(Char(st[1], o), FALSE, FALSE)
            \/ \E n \in NoisePatterns :
                 IdleOn([Glitch(st[1]) EXCEPT
                           !.flips = Noise([dec EXCEPT !.frame_start = st[1],
                                                       !.sample_point = 0], n),
                           !.noisy = TRUE], FALSE, FALSE)

DataNoise ==
    /\ dec.state = "DATA"
    /\ \E n \in Patterns : DataOn(Noisy(wire, n), FALSE)

ParityNoise ==
    /\ dec.state = "PARITY"
    /\ \E p \in {0, 1}, n \in Patterns : ParityOn(Noisy([wire EXCEPT !.par = p], n), FALSE)

StopNoise ==
    /\ dec.state = "STOP"
    /\ \E l \in {0, 1}, n \in Patterns : StopOn(Noisy([wire EXCEPT !.stop = l], n), FALSE)

NextNoise ==
    \/ IdleNoise /\ Idle2
    \/ DataNoise /\ Data2
    \/ ParityNoise /\ Parity2
    \/ StopNoise /\ Stop2

SpecNoise == Init /\ [][NextNoise]_vars

(***************************************************************************)
(* A session of the host: the decoder is constructed, metadata() supplies  *)
(* the samplerate (or not), decode() is started, the transmitter sends one *)
(* frame at the nominal period, and at any moment the host ends the        *)
(* session with reset() and begins another.  From the reset on dec2 is a   *)
(* freshly constructed Decoder that gets the same calls and the same       *)
(* stream as dec.                                                          *)
(***************************************************************************)
\* characters on the line in one session
SessChars == 9

InitSession ==
    /\ dec = Decoder(None, "normal")
    /\ dec2 = Decoder(None, "normal")
    /\ out = <<>>
    /\ out2 = <<>>
    /\ octets = <<>>
    /\ wire = NoChar
    /\ tx = [frame |-> <<>>, n |-> 0, gaps |-> 0, frames |-> 0, resets |-> 0]
    /\ frame = <<>>
    /\ row_ss = [r \in Rows |-> -1]
    /\ arrival = NoArrival
    /\ pc = "constructed"

Metadata ==
    /\ pc = "constructed"
    /\ dec.samplerate = None
    /\ \E sr \in SampleRates :
         /\ dec' = metadata(dec, sr)
         /\ dec2' = IF tx.resets = 0 THEN dec2 ELSE metadata(dec2, sr)
    /\ UNCHANGED <<out, out2, octets, wire, tx, frame, row_ss, arrival, pc>>

\* decode() is called
Start ==
    /\ pc = "constructed"
    /\ pc' = decode_start(dec)
    /\ UNCHANGED <<dec, dec2, out, out2, octets, wire, tx, frame, row_ss, arrival>>

IdleSess ==
    /\ dec.state = "IDLE"
    /\ wait_edge(dec) = start_edge(FALSE)
    /\ tx.n < SessChars
    /\ TxMore(tx.frame)
    /\ \E st \in NextStarts, o \in TxOctets(tx.frame) :
         /\ ~st[2]
         /\ IdleOn(Char(st[1], o), FALSE, FALSE)

\* the host ends the session: reset(); the next session counts its samples
\* from 0 again
Reset ==
    /\ pc = "decode"
    /\ tx.resets = 0
    /\ dec' = [reset(dec) EXCEPT !.samplenum = 0]
    /\ dec2' = Decoder(None, "normal")
    /\ out' = <<>>
    /\ out2' = <<>>
    /\ octets' = <<>>
    /\ wire' = NoChar
    /\ tx' = [frame |-> <<>>, n |-> 0, gaps |-> 0, frames |-> 0, resets |-> tx.resets + 1]
    /\ frame' = <<>>
    /\ row_ss' = [r \in Rows |-> -1]
    /\ arrival' = NoArrival
    /\ pc' = "constructed"

IdleTwin == \E r \in {decode_IDLE(dec2, wire', FALSE)} : Emit2(r)

DataTwin == \E r \in {decode_DATA(dec2, wire', FALSE)} : Emit2(r)

ParityTwin == \E r \in {decode_PARITY(dec2, wire', FALSE)} : Emit2(r)

StopTwin == \E r \in {decode_STOP(dec2, wire', FALSE)} : Emit2(r)

NextSession ==
    \/ Metadata
    \/ Start
    \/ Reset
    \/ IdleSess /\ (IF tx.resets = 0 THEN Single ELSE IdleTwin)
    \/ Data /\ (IF tx.resets = 0 THEN Single ELSE DataTwin)
    \/ Parity /\ (IF tx.resets = 0 THEN Single ELSE ParityTwin)
    \/ Stop /\ (IF tx.resets = 0 THEN Single ELSE StopTwin)

SpecSession == InitSession /\ [][NextSession]_vars

(***************************************************************************)
(* The dissectors alone: handle_tpdu is called on a tpdu buffer as the     *)
(* link framer builds it for a frame sent at the nominal period from the   *)
(* first edge on, with any first octet, any second octet and up to MaxData *)
(* further octets.                                                         *)
(***************************************************************************)
\* octets of a tpdu after the first two
MaxData == 2

\* first TPDU octets that are followed by more: all combinations of the data
\* bit 0x80, the numbered bit 0x40 and the two low bits
Ctrl0Apdu == {hi + lo : hi \in {\h00, \h54, \h80, \hC0}, lo \in 0..3}

\* the i-th octet after the first two
DataOctet(i) == (i * \h5B + \h0A) % 256

TpduInputs ==
    {<<c0>> : c0 \in AllOctets}
    \cup {<<c0, c1>> \o [i \in 1..n |-> DataOctet(i)] :
             c0 \in Ctrl0Apdu, c1 \in AllOctets, n \in 0..MaxData}

\* the sample at which the eighth data bit of a character starting at `start'
\* has been sampled (sub-sample 53 of the character)
octet_samplenum(self, start) ==
    get_next_sample_point([self EXCEPT !.frame_start = start], 53)

\* the (ss, se, octet) triple handle_octet appends for the octet at position
\* pos of a frame
tpdu_entry(self, pos, octet) ==
    LET start == FirstEdge(self.samplerate) + pos * NominalPeriod(self.samplerate)
        r     == get_sample_range([self EXCEPT !.samplenum = octet_samplenum(self, start)], 8)
    IN  <<r[1], r[2], octet>>

InitDissect ==
    /\ \E sr \in SampleRates, at \in BOOLEAN, t \in TpduInputs :
         /\ dec = [Decoder(sr, "normal") EXCEPT
                      !.at = at, !.length = Len(t) - 1, !.octet_num = 7 + Len(t) - 1,
                      !.tpdu = [i \in 1..Len(t) |-> tpdu_entry(Decoder(sr, "normal"), 5 + i, t[i])],
                      !.unset = @ \ {"at", "tpdu"}]
         /\ dec2 = Decoder(sr, "inverted")
    /\ out = <<>>
    /\ out2 = <<>>
    /\ octets = <<>>
    /\ wire = NoChar
    /\ tx = [frame |-> <<>>, n |-> 0, gaps |-> 0, frames |-> 0, resets |-> 0]
    /\ frame = <<>>
    /\ row_ss = [r \in Rows |-> -1]
    /\ arrival = NoArrival
    /\ pc = "handle_tpdu"

\* self.handle_tpdu(self.tpdu)
Dissect ==
    /\ pc = "handle_tpdu"
    /\ pc' = "return"
    /\ out' = handle_tpdu(dec, dec.tpdu)
    /\ UNCHANGED <<dec, octets, wire, tx, frame, row_ss, arrival>>

NextDissect == Dissect /\ Single

SpecDissect == InitDissect /\ [][NextDissect]_vars

(***************************************************************************)
(* Properties.  They are stated with the definitions below, not with the   *)
(* decoder's own helpers.                                                  *)
(***************************************************************************)
\* the iteration just taken handed an octet to handle_octet
Delivered == dec.state = "PARITY" /\ octets # <<>>

\* the octet handed over
Octet == octets[Len(octets)]

\* (o & 0x33) == 0, bit by bit
AckClass(o) == (o \div 16) % 4 = 0 /\ o % 4 = 0

Texts(rs) == [i \in 1..Len(rs) |-> rs[i].data[2]]

\* link, transport and application annotations of the last iteration
Layers(rs) == InRow(rs, "layers")

\* the gap of the arriving octet exceeds 10 bit times
GapExceeds == arrival.gap * 9600 > 10 * dec.samplerate

\* the gap of the arriving octet is at least 10 bit times
GapAtLeast == arrival.gap * 9600 >= 10 * dec.samplerate

\* length L announced by octet 5 of the current frame
FrameLen == frame[6] % 16

\* the octet just handed over was taken at position 7+L of its frame
FcsStep == Delivered /\ Len(frame) >= 8 /\ Len(frame) = 8 + FrameLen

\* 0xFF XOR-ed with the octets at positions 0..6+L of the current frame
ExpectedFcs == xor_fold(SubSeq(frame, 1, Len(frame) - 1))

TwoHex(b) == HexDigit[(b \div 16) + 1] \o HexDigit[(b % 16) + 1]

\* C1: an octet is handed to the link framer only if the parity check of its
\* character passed and its stop bit was sampled high: when a parity-err or
\* stop-err annotation is put, no octet of that character has been handed to
\* handle_octet.
C1_ErrorSuppressed ==
    (Tagged(out, "parity-err") # <<>> \/ Tagged(out, "stop-err") # <<>>)
        => octets = <<>>

\* C2: when the octet at position 7+L of a frame is processed, the link
\* annotation is 'FCS OK' iff the octet equals 0xFF XOR-ed with the octets at
\* positions 0..6+L, else 'FCS error (expected HH)' with HH that XOR value.
C2_FcsLaw ==
    FcsStep =>
        Texts(Tagged(out, "link")) =
            IF Octet = ExpectedFcs
            THEN << <<"FCS OK">> >>
            ELSE << <<"FCS error (expected " \o TwoHex(ExpectedFcs) \o ")", "FCS error">> >>

C2_Witness ==
    /\ FcsStep
    /\ FrameLen = 2
    /\ Octet # ExpectedFcs
    /\ Tagged(out, "link") # <<>>

\* C3: a transport annotation is put exactly when the octet at position
\* 7+L arrives and equals the running FCS, and then exactly one; in every
\* other iteration (FCS error, other positions, acknowledge frames, frames
\* cut short) neither a transport nor an application annotation is put.
C3_TransportOnlyOnFcsOk ==
    LET nt == Len(Tagged(out, "transport"))
        na == Len(Tagged(out, "application"))
    IN  IF FcsStep /\ Octet = ExpectedFcs THEN nt = 1 /\ na <= 1
        ELSE nt = 0 /\ na = 0

C3_Witness ==
    /\ FcsStep
    /\ Octet = ExpectedFcs
    /\ FrameLen = 0
    /\ Len(Tagged(out, "transport")) = 1

\* the arriving octet was processed as octet_num = 0
ProcessedAsFirst ==
    /\ dec.tpdu = <<>>
    /\ dec.length = 0
    /\ dec.fcs = IF AckClass(Octet) THEN 255 ELSE BitXor(255, Octet)
    /\ dec.octet_num = IF AckClass(Octet) THEN 0 ELSE 1
    /\ Len(Layers(out)) = 1
    /\ Tagged(out, "link") # <<>>
    /\ Tagged(out, "link")[1].ss = get_sample_range(dec, 8)[1]

\* C4 as claimed: if the gap between the arriving octet's start sample and
\* the previous octet's end sample is at least 10 bit times, the octet is
\* processed as octet_num = 0.
C4_GapAtLeast10 == (Delivered /\ GapAtLeast) => ProcessedAsFirst

\* C4 amended: if that gap exceeds 10 bit times the octet is processed as
\* octet_num = 0: frame-start link annotation, fcs reseeded, tpdu emptied.
C4_GapExceeds10 == (Delivered /\ GapExceeds) => ProcessedAsFirst

\* a resynchronisation from the middle of the payload of a frame
C4_Witness ==
    /\ Delivered
    /\ GapExceeds
    /\ arrival.from >= 7
    /\ dec.octet_num = 1

\* C5: within each annotation row the ss of the annotations, in the order
\* they are put, never decreases.
RECURSIVE NonDecreasing(_, _)
NonDecreasing(last, rs) ==
    IF rs = <<>> THEN TRUE
    ELSE Head(rs).ss >= last /\ NonDecreasing(Head(rs).ss, Tail(rs))

C5_RowOrder ==
    [][\A row \in Rows : NonDecreasing(row_ss[row], InRow(out', row))]_vars

\* C6: an octet with (octet & 0x33) = 0 processed at octet_num = 0 gets
\* exactly one link annotation and no transport or application annotation
\* and leaves octet_num at 0; an octet that arrives when octet_num is 0 is
\* classified as a frame-start octet, with or without an idle gap.
C6_AckEndsFrame ==
    Delivered =>
        /\ ((arrival.from = 0 \/ GapExceeds) /\ AckClass(Octet)) =>
              /\ dec.octet_num = 0
              /\ Len(Layers(out)) = 1
              /\ Len(Tagged(out, "link")) = 1
              /\ frame = <<>>
        /\ arrival.from = 0 => ProcessedAsFirst

\* an acknowledge character right after another one, no idle gap between
C6_Witness ==
    /\ Delivered
    /\ tx.n = 2
    /\ tx.gaps = 0
    /\ arrival.from = 0
    /\ ~GapExceeds
    /\ Octet = 204
    /\ Texts(Tagged(out, "link")) = << <<"ACK">> >>

\* the STOP iteration has just been taken
StopDone == Tagged(out, "stop-ok") # <<>> \/ Tagged(out, "stop-err") # <<>>

\* C7 as claimed: the decoder samples two stop-bit periods before it returns
\* to IDLE, twelve bit periods of six sub-samples per character.
C7_TwoStopBits == StopDone => dec.state = "IDLE" /\ dec.sample_point = 6 * 12

\* C7 amended: the decoder samples one stop-bit period, puts one stop
\* annotation and returns to IDLE: eleven bit periods of six sub-samples per
\* character, and the wait for the next start edge begins inside the first
\* stop bit.
C7_OneStopBit ==
    StopDone =>
        /\ dec.state = "IDLE"
        /\ dec.sample_point = 6 * 11
        /\ cell_of(wire, dec.samplerate, dec.samplenum) = 10
        /\ Len(out) = 1

C7_Witness == StopDone /\ dec.sample_point = 66 /\ tx.n = 2

\* C8: the decoder with polarity=inverted on the complemented stream is in
\* the same state and has put the same records as the decoder with
\* polarity=normal on the stream.
C8_PolaritySymmetry ==
    /\ [dec2 EXCEPT !.polarity = "normal"] = dec
    /\ out2 = out

C8_Witness ==
    /\ dec2.polarity = "inverted"
    /\ dec2.octet_num = 9
    /\ Tagged(out2, "transport") # <<>>

\* C9: a character encoding octet b makes the decoder put exactly one raw
\* annotation, with the two-digit uppercase hex of b, and exactly one binary
\* record, with byte b: both in the iteration that samples the eighth data
\* bit, none in any other.
C9_UartRoundTrip ==
    LET raws == Tagged(out, "raw")
        bins == SelectSeq(out, LAMBDA r : r.output_id = "out_binary")
    IN  IF dec.state = "PARITY"
        THEN /\ Len(raws) = 1
             /\ raws[1].data[2] = <<TwoHex(wire.octet)>>
             /\ Len(bins) = 1
             /\ bins[1].data = <<0, <<wire.octet>> >>
             /\ dec.byte = wire.octet
        ELSE raws = <<>> /\ bins = <<>>

\* XOR of the eight bits of b
XorBits(b) ==
    ((b % 2) + ((b \div 2) % 2) + ((b \div 4) % 2) + ((b \div 8) % 2)
     + ((b \div 16) % 2) + ((b \div 32) % 2) + ((b \div 64) % 2)
     + ((b \div 128) % 2)) % 2

\* a character with valid framing has been decoded to its end
C9_Witness ==
    /\ Tagged(out, "stop-ok") # <<>>
    /\ wire.par = XorBits(wire.octet)
    /\ wire.octet = 165
    /\ octets = <<165>>
    /\ tx.n = 2

\* C10: the PARITY iteration puts exactly one of parity-ok / parity-err, and
\* parity-ok iff the XOR of the eight data bits equals the parity bit; no
\* other iteration puts either.
C10_ParityLaw ==
    LET ok  == Len(Tagged(out, "parity-ok"))
        err == Len(Tagged(out, "parity-err"))
    IN  IF dec.state = "STOP"
        THEN /\ ok + err = 1
             /\ ok = 1 <=> XorBits(wire.octet) = wire.par
        ELSE ok = 0 /\ err = 0

C10_Witness ==
    /\ dec.state = "STOP"
    /\ wire.octet = 254
    /\ wire.par = 0
    /\ Tagged(out, "parity-err") # <<>>

\* the frame of scenario S3 has been taken up to its ninth octet
S3Frame == <<\hBC, \h11, \h01, \h09, \h01, \hE1, \h00, \h81, \h1F>>

S3Done == Delivered /\ frame = S3Frame

\* C11 as claimed: the nine octets BC 11 01 09 01 E1 00 81 1F, taken without
\* an idle gap, end with link 'FCS OK', transport
\* 'T_Data_Broadcast/T_Data_Group' and application 'A_GroupValue_Write'.
C11_S3FcsOk ==
    S3Done =>
        /\ Texts(Tagged(out, "link")) = << <<"FCS OK">> >>
        /\ Texts(Tagged(out, "transport")) = << <<"T_Data_Broadcast/T_Data_Group">> >>
        /\ Texts(Tagged(out, "application")) = << <<"A_GroupValue_Write">> >>

\* C11 amended: 0xFF XOR-ed with the first eight octets is 0x3B, so the ninth
\* octet 0x1F ends the frame with link 'FCS error (expected 3B)' and neither
\* a transport nor an application annotation is put.
C11_S3FcsError ==
    S3Done =>
        /\ Texts(Layers(out)) = << <<"FCS error (expected 3B)", "FCS error">> >>
        /\ Tagged(out, "link") = Layers(out)
        /\ dec.at /\ dec.length = 1 /\ dec.octet_num = 9

C11_Witness ==
    /\ S3Done
    /\ tx.gaps = 0
    /\ Len(Tagged(out, "link")) = 1

\* an FCS-valid frame to an individual address whose TPDU begins 0x54 0x41
S5Done ==
    /\ FcsStep
    /\ Octet = ExpectedFcs
    /\ frame[6] < 128
    /\ FrameLen >= 1
    /\ frame[7] = \h54
    /\ frame[8] = \h41

\* C12: for an FCS-valid frame with an individual destination whose TPDU
\* begins 0x54 0x41 the transport label is 'T_Data_Connected SeqNo:5' and the
\* application label is 'A_GroupValue_Response'.
C12_S5Labels ==
    S5Done =>
        /\ Texts(Tagged(out, "transport")) = << <<"T_Data_Connected SeqNo:5">> >>
        /\ Texts(Tagged(out, "application")) = << <<"A_GroupValue_Response">> >>

\* the tpdu buffer of a frame sent at the nominal period from the first edge
\* on is the one tpdu_entry gives
TpduEntries ==
    (tx.gaps = 0 /\ tx.frames = 1 /\ Len(frame) = tx.n /\ "tpdu" \notin dec.unset) =>
        \A i \in 1..Len(dec.tpdu) : dec.tpdu[i] = tpdu_entry(dec, 5 + i, dec.tpdu[i][3])

\* the dissector has run on the tpdu buffer
Dissected == pc = "return"

\* first and second octet of the tpdu, and the 10-bit APCI value: the two
\* low bits of the first octet above the eight bits of the second
Tpdu0Octet == dec.tpdu[1][3]

Tpdu1Octet == dec.tpdu[2][3]

Apci == (Tpdu0Octet % 4) * 256 + Tpdu1Octet

\* the APDU dissector was invoked with at least two octets
HasApdu == Dissected /\ Len(dec.tpdu) >= 2 /\ (Tpdu0Octet \div 128) % 2 = 0

\* decimal of n < 100
TwoDec(n) == IF n < 10 THEN HexDigit[n + 1]
             ELSE HexDigit[(n \div 10) + 1] \o HexDigit[(n % 10) + 1]

\* space-separated two-digit hex of the octets of the tpdu from index i on
RECURSIVE DataHex(_)
DataHex(i) ==
    IF i > Len(dec.tpdu) THEN ""
    ELSE IF i = Len(dec.tpdu) THEN TwoHex(dec.tpdu[i][3])
    ELSE TwoHex(dec.tpdu[i][3]) \o " " \o DataHex(i + 1)

\* the label texts of table entry key: each template with no placeholder
PlainTexts(table, key) ==
    IF key \in DOMAIN table
    THEN [i \in 1..Len(table[key]) |-> table[key][i][1]]
    ELSE <<"Invalid", "Inv">>

\* C13: for n in 0..45 the APCI value 0x2CA+n gives the label
\* 'A_UserMsg<n> Data:<hex of tpdu[2..]>', for n in 0..6 the value 0x2F8+n
\* gives 'A_ManufacturerUserMsg<n> Data:<hex>', and every other APCI value
\* gives the label of its own key in a_ctrl ('Invalid' if it has none).
C13_ApciSubRanges ==
    HasApdu =>
        Texts(Tagged(out, "application")) =
            << IF Apci >= 714 /\ Apci <= 714 + 45
               THEN <<"A_UserMsg" \o TwoDec(Apci - 714) \o " Data:" \o DataHex(3)>>
               ELSE IF Apci >= 760 /\ Apci <= 760 + 6
               THEN <<"A_ManufacturerUserMsg" \o TwoDec(Apci - 760) \o " Data:" \o DataHex(3)>>
               ELSE PlainTexts(a_ctrl, Apci) >>

\* the last value of the first sub-range, with two data octets
C13_Witness ==
    /\ HasApdu
    /\ Apci = 759
    /\ Len(dec.tpdu) = 4
    /\ Texts(Tagged(out, "application")) = << <<"A_UserMsg45 Data:65 C0">> >>

\* C14: when decode() is started without a samplerate, decoding ends with
\* the exception SamplerateError, no sample consumed and no record put.
C14_TypedError ==
    (dec.samplerate = None /\ pc # "constructed") =>
        /\ pc = "SamplerateError"
        /\ dec.samplenum = 0
        /\ out = <<>>

\* reset() has just been called
JustReset == tx.resets > 0 /\ pc = "constructed" /\ dec.samplerate = None

\* C15 as claimed: after reset() the decoder is in its initial state: UART
\* state IDLE, octet_num = 0, last_frame_se = 0, length = 0, and the tpdu
\* buffer, fcs and at_flag hold nothing of the earlier frame: each is absent
\* as in a freshly constructed decoder, or has its frame-start value.
C15_ResetIsFresh ==
    JustReset =>
        /\ dec.state = "IDLE"
        /\ dec.octet_num = 0
        /\ dec.last_frame_se = 0
        /\ dec.length = 0
        /\ "tpdu" \in dec.unset \/ dec.tpdu = <<>>
        /\ "fcs" \in dec.unset \/ dec.fcs = 255
        /\ "at" \in dec.unset \/ dec.at = FALSE

\* the attributes a decoder d has
Has(d) == (DOMAIN d \ {"unset"}) \ d.unset

\* C15 amended: reset() sets samplerate to None, the UART state to IDLE and
\* octet_num, last_ss, last_octet, length and last_frame_se to 0; tpdu, fcs,
\* at_flag and the other attributes keep the values of the earlier frame
\* until the next session assigns them.  In the next session every attribute
\* that a freshly constructed decoder has is equal in the two, and the two
\* put the same records.
C15_ResetRestarts ==
    tx.resets > 0 =>
        /\ out = out2
        /\ Has(dec2) \subseteq Has(dec)
        /\ \A a \in Has(dec2) : dec[a] = dec2[a]
        /\ JustReset =>
              /\ dec.state = "IDLE"
              /\ dec.octet_num = 0
              /\ dec.last_ss = 0
              /\ dec.last_octet = 0
              /\ dec.length = 0
              /\ dec.last_frame_se = 0

\* after a reset in the middle of a frame's payload, the start bit of the
\* next session's first character has been sampled: the tpdu buffer still
\* holds the two octets of the earlier frame
C15_Witness ==
    /\ tx.resets = 1
    /\ dec.state = "DATA"
    /\ Len(dec.tpdu) = 2
    /\ "tpdu" \in dec2.unset
    /\ Tagged(out2, "start") # <<>>

\* the application annotation put by the dissector
App == Tagged(out, "application")[1]

\* 2 * bit_width in whole samples
TwoBitWidths == (2 * dec.samplerate) \div 9600

\* C16 as claimed: every application annotation spans from
\* tpdu[0].se - 2*bit_width to the end sample of the last tpdu octet.
C16_SpanToLast ==
    HasApdu =>
        /\ Len(Tagged(out, "application")) = 1
        /\ App.ss = dec.tpdu[1][2] - TwoBitWidths
        /\ App.se = dec.tpdu[Len(dec.tpdu)][2]

\* C16 amended: the application annotation spans from
\* tpdu[0].se - floor(2*bit_width) to the end sample of the second tpdu
\* octet; only for the APCI values 0x2CA..0x2FE (A_UserMsg and
\* A_ManufacturerUserMsg) does it end at the end sample of the last octet.
C16_SpanToSecond ==
    HasApdu =>
        /\ Len(Tagged(out, "application")) = 1
        /\ App.ss = dec.tpdu[1][2] - TwoBitWidths
        /\ App.se = IF Apci >= 714 /\ Apci <= 766
                    THEN dec.tpdu[Len(dec.tpdu)][2]
                    ELSE dec.tpdu[2][2]

\* A_GroupValue_Write with two further octets: the span ends at the second
C16_Witness ==
    /\ HasApdu
    /\ Apci = 128
    /\ Len(dec.tpdu) = 4
    /\ App.se = dec.tpdu[2][2]
    /\ App.se < dec.tpdu[4][2]

Min(a, b) == IF a < b THEN a ELSE b

\* the octets held in the tpdu buffer
TpduOctets == [i \in 1..Len(dec.tpdu) |-> dec.tpdu[i][3]]

\* C17: in every link-framer state the tpdu buffer holds at most length+1
\* (<= 16) entries, they are the octets taken at positions
\* 6..min(octet_num-1, 6+length) of the current frame in arrival order, and
\* when the FCS step at position 7+length has run it holds length+1 octets.
C17_TpduBuffer ==
    "tpdu" \notin dec.unset =>
        /\ Len(frame) = dec.octet_num
        /\ Len(frame) >= 6 => dec.length = FrameLen
        /\ Len(dec.tpdu) <= dec.length + 1
        /\ Len(dec.tpdu) <= 16
        /\ TpduOctets = SubSeq(frame, 7, Min(dec.octet_num, 7 + dec.length))
        /\ FcsStep => Len(dec.tpdu) = dec.length + 1 /\ Len(dec.tpdu) >= 1

C17_Witness ==
    /\ FcsStep
    /\ dec.length = 2
    /\ Len(dec.tpdu) = 3
    /\ TpduOctets = SubSeq(frame, 7, 9)

\* a bit period has been sampled
Sampled == tx.n > 0

\* the levels of the line at the six sub-samples of the bit period sampled
\* last, first to sixth
SubSamples ==
    LET pts == sub_sample_points([dec EXCEPT !.sample_point = @ - 6])
    IN  [i \in 1..6 |-> line_level(wire, dec.samplerate, pts[i])]

\* the bit value decoder d took in the iteration that put the records o: a
\* start bit is accepted iff 0; a data bit is the text put; the parity bit
\* makes the parity of the nine bits even iff parity-ok; stop-ok iff 1
DecidedBit(d, o) ==
    IF d.sample_point = 6 THEN (IF d.state = "DATA" THEN 0 ELSE 1)
    ELSE IF d.sample_point <= 54
    THEN (IF Texts(Tagged(o, "data")) = << <<"1">> >> THEN 1 ELSE 0)
    ELSE IF d.sample_point = 60
    THEN (IF Tagged(o, "parity-ok") # <<>> THEN XorBits(d.byte) ELSE 1 - XorBits(d.byte))
    ELSE (IF Tagged(o, "stop-ok") # <<>> THEN 1 ELSE 0)

\* C18: the sampled bit value is 1 iff the first five of the six sub-samples
\* of the bit period are 1 (after the polarity option is applied), whatever
\* the sixth is; it is 0 for every other pattern.
C18_VoteRule ==
    Sampled =>
        LET e == IF \A i \in 1..5 : SubSamples[i] = 1 THEN 1 ELSE 0
        IN  /\ DecidedBit(dec, out) = e
            /\ DecidedBit(dec2, out2) = e

\* a data bit with five high sub-samples and a low sixth
C18_Witness ==
    /\ Sampled
    /\ SubSamples = <<1, 1, 1, 1, 1, 0>>
    /\ dec.state = "DATA"
    /\ dec.sample_point = 18
    /\ Texts(Tagged(out, "data")) = << <<"1">> >>
    /\ Texts(Tagged(out2, "data")) = << <<"1">> >>

\* the arriving octet starts a frame: it came at octet_num = 0 or after an
\* idle gap
StartsFrame == arrival.from = 0 \/ GapExceeds

\* C19: octet_num is 0 after an octet only if the octet is of acknowledge
\* class and arrived at octet_num = 0 or after an idle gap; every other octet
\* leaves it one above its position.  After the FCS octet at position
\* 7+length an octet arriving without an idle gap increments octet_num and
\* puts no link, transport or application annotation.
C19_OctetNumReset ==
    Delivered =>
        /\ dec.octet_num = IF StartsFrame
                           THEN (IF AckClass(Octet) THEN 0 ELSE 1)
                           ELSE arrival.from + 1
        /\ (~StartsFrame /\ arrival.from > 7 + dec.length) => Layers(out) = <<>>
        /\ (FcsStep /\ ~StartsFrame) => dec.octet_num = 8 + dec.length

\* an octet right after the FCS octet, no idle gap
C19_Witness ==
    /\ Delivered
    /\ ~GapExceeds
    /\ arrival.from = 8 + dec.length
    /\ dec.octet_num = 9 + dec.length
    /\ Len(frame) = 9 + FrameLen
    /\ Layers(out) = <<>>

\* the key of the transport table for the first octet: at_flag as bit 0x8000;
\* a data-carrying octet (0x80 clear) loses its two low bits; a numbered one
\* (0x40 set) loses the sequence number bits 0x3C
TransportKey ==
    LET c  == Tpdu0Octet
        hi == IF dec.at THEN 32768 ELSE 0
        d  == IF (c \div 128) % 2 = 0 THEN c - (c % 4) ELSE c
    IN  hi + (IF (d \div 64) % 2 = 1 THEN d - ((d \div 4) % 16) * 4 ELSE d)

\* C20: for every first TPDU octet and both values of at_flag the key looked
\* up in the transport table is not 0x8001: the transport label is the one
\* of a key other than 0x8001 and never 'T_Data_Tag_Group'.
C20_NoTagGroup ==
    Dissected =>
        /\ TransportKey # 32769
        /\ Len(Tagged(out, "transport")) = 1
        /\ Tagged(out, "transport")[1].data[2][1] # "T_Data_Tag_Group"
        /\ TransportKey \notin {64, 194, 195} =>
              Texts(Tagged(out, "transport")) = <<PlainTexts(t_ctrl, TransportKey)>>
        /\ TransportKey \notin DOMAIN t_ctrl =>
              Texts(Tagged(out, "transport")) = << <<"Invalid", "Inv">> >>

\* first octet 0x01 of a group frame: the key is 0x8000
C20_Witness ==
    /\ Dissected
    /\ dec.at
    /\ Tpdu0Octet = 1
    /\ Texts(Tagged(out, "transport")) = << <<"T_Data_Broadcast/T_Data_Group">> >>

====
